---- MODULE Spec2Model ----
(***************************************************************************)
(* linear-kv: a single-node key/value store whose handlers run under one   *)
(* sync.Mutex, with idempotent PUTs, a history log of timestamped records  *)
(* and a linearizability checker over a snapshot of that log (main.go).    *)
(***************************************************************************)
EXTENDS Integers, Sequences, FiniteSets, TLC

\* Concurrent callers (goroutines serving requests).
Threads == {"t1", "t2"}
\* Inputs of the requests; "" is the empty string (a missing field or header).
Keys == {"a"}
Values == {"", "x"}
RequestIDs == {"r1", "r2"}

\* Put/Get requests that pass validation over a run (records ever appended).
MaxOps == 3
\* Largest reading of the clock.
MaxTime == 1

VARIABLES
    mu,          \* Store.mu: TRUE while the mutex is locked
    kv,          \* Store.kv: a function whose domain is the set of present keys
    seenWrite,   \* Store.seenWrite: set of request ids of applied PUTs
    history,     \* Store.history: sequence of HistoryEntry
    now,         \* the clock time.Now() reads (non-decreasing)
    pc,          \* per caller: the position in its handler
    req,         \* per caller: the decoded request
    start,       \* per caller: the local start
    result,      \* per caller: handlePut's local result
    value,       \* per caller: handleGet's local value
    ok,          \* per caller: handleGet's local ok
    resp,        \* per caller: the response written to the client
    historyCopy, \* per caller: the snapshot taken by /history and /check
    seenLen,     \* per caller: length of the history when its Get started
    snaps,       \* number of /history and /check requests served so far
    lc,          \* LinearizabilityChecker.history of a stand-alone checker
    verdict      \* what CheckLinearizability returned for lc

vars == <<mu, kv, seenWrite, history, now, pc, req, start, result, value, ok,
          resp, historyCopy, seenLen, snaps, lc, verdict>>

shared == <<mu, kv, seenWrite, history>>
locals == <<req, start, result, value, ok, resp, historyCopy, seenLen>>
checker == <<lc, verdict>>

NoReq == [op |-> "", requestId |-> "", key |-> "", value |-> ""]
NoResp == [status |-> 0]
NoVerdict == [isLinearizable |-> FALSE, violations |-> {}, returned |-> FALSE]

\* type HistoryEntry; Duration is end.Sub(start).
HistoryEntry(rid, op, key, val, res, s, e) ==
    [RequestID |-> rid, Op |-> op, Key |-> key, Value |-> val, Result |-> res,
     Start |-> s, End |-> e, Duration |-> e - s]

\* NewStore(): empty map, empty dedup set, empty history, unlocked mutex.
NewStore ==
    /\ mu = FALSE
    /\ kv = [k \in {} |-> ""]
    /\ seenWrite = {}
    /\ history = <<>>

\* No caller has a request in progress.
Idle ==
    /\ pc = [t \in Threads |-> "idle"]
    /\ req = [t \in Threads |-> NoReq]
    /\ start = [t \in Threads |-> 0]
    /\ result = [t \in Threads |-> ""]
    /\ value = [t \in Threads |-> ""]
    /\ ok = [t \in Threads |-> FALSE]
    /\ resp = [t \in Threads |-> NoResp]
    /\ historyCopy = [t \in Threads |-> <<>>]
    /\ seenLen = [t \in Threads |-> 0]
    /\ snaps = 0

Init ==
    /\ NewStore
    /\ Idle
    /\ now = 0
    /\ lc = <<>>
    /\ verdict = NoVerdict

\* The clock advances; two readings of time.Now() may be equal.
Tick ==
    /\ now < MaxTime
    /\ now' = now + 1
    /\ UNCHANGED <<shared, pc, locals, snaps, checker>>

\* Positions of a handler between passing validation and appending its record.
Pending == {"put_wait", "put_locked", "put_applied",
            "get_wait", "get_locked", "get_read"}

\* Requests that will still append a record.
InFlight == {t \in Threads : pc[t] \in Pending}

\* The run serves at most MaxOps requests.
CanStart == Len(history) + Cardinality(InFlight) + snaps < MaxOps

\* A lock that does not wait for the holder.
LockNoWait == TRUE
\* s.mu.Lock() returns only when the mutex is unlocked.
Lock == ~mu

\* A lookup that never finds the request id.
SeenNever(rid) == FALSE
\* _, exists := s.seenWrite[req.RequestID]
Seen(rid) == rid \in seenWrite

\* A write that keeps the value of a key already present.
MapSetIfAbsent(m, k, v) ==
    [x \in (DOMAIN m) \cup {k} |-> IF x \in DOMAIN m THEN m[x] ELSE v]
\* s.kv[req.Key] = req.Value
MapSet(m, k, v) == [x \in (DOMAIN m) \cup {k} |-> IF x = k THEN v ELSE m[x]]

\* A lookup that takes the zero value for an absent key.
MapGetNonEmpty(m, k) ==
    IF k \in DOMAIN m THEN [value |-> m[k], ok |-> m[k] # ""]
    ELSE [value |-> "", ok |-> FALSE]
\* value, ok := s.kv[key]: the zero value "" and false for an absent key.
MapGet(m, k) ==
    IF k \in DOMAIN m THEN [value |-> m[k], ok |-> TRUE]
    ELSE [value |-> "", ok |-> FALSE]

\* A result that ignores ok.
GetResultAlwaysOk(found) == "ok"
\* map[bool]string{true: "ok", false: "not_found"}[ok]
GetResult(found) == IF found THEN "ok" ELSE "not_found"

\* A validation that forgets the request id.
PutInvalidKeyOnly(r) == r.key = ""
\* req.RequestID == "" || req.Key == ""
PutInvalid(r) == r.requestId = "" \/ r.key = ""

\* key == ""
GetInvalid(r) == r.key = ""

\* A handler returns: its locals are gone and the goroutine serves the next
\* request.
Return(t) ==
    /\ pc' = [pc EXCEPT ![t] = "idle"]
    /\ req' = [req EXCEPT ![t] = NoReq]
    /\ start' = [start EXCEPT ![t] = 0]
    /\ result' = [result EXCEPT ![t] = ""]
    /\ value' = [value EXCEPT ![t] = ""]
    /\ ok' = [ok EXCEPT ![t] = FALSE]
    /\ resp' = [resp EXCEPT ![t] = NoResp]
    /\ historyCopy' = [historyCopy EXCEPT ![t] = <<>>]
    /\ seenLen' = [seenLen EXCEPT ![t] = 0]

------------------------------------------------------------------------------
\* handlePut

\* start := time.Now(); the body fails to decode: 400, nothing else happens.
PutMalformed(t) ==
    /\ pc[t] = "idle"
    /\ CanStart
    /\ pc' = [pc EXCEPT ![t] = "rejected"]
    /\ start' = [start EXCEPT ![t] = now]
    /\ resp' = [resp EXCEPT ![t] = [status |-> 400, error |-> "invalid JSON"]]
    /\ UNCHANGED <<shared, now, req, result, value, ok, historyCopy, seenLen,
                   snaps, checker>>

\* start := time.Now(); decode; an empty requestId or key: 400.
PutRejected(t) ==
    /\ pc[t] = "idle"
    /\ CanStart
    /\ \E rid \in RequestIDs \cup {""}, k \in Keys \cup {""}, v \in Values :
          LET r == [op |-> "PUT", requestId |-> rid, key |-> k, value |-> v] IN
          /\ PutInvalid(r)
          /\ req' = [req EXCEPT ![t] = r]
    /\ pc' = [pc EXCEPT ![t] = "rejected"]
    /\ start' = [start EXCEPT ![t] = now]
    /\ resp' = [resp EXCEPT ![t] =
                  [status |-> 400, error |-> "requestId and key required"]]
    /\ UNCHANGED <<shared, now, result, value, ok, historyCopy, seenLen,
                   snaps, checker>>

\* start := time.Now(); decode; validation passes: on to s.mu.Lock().
PutStart(t) ==
    /\ pc[t] = "idle"
    /\ CanStart
    /\ \E rid \in RequestIDs \cup {""}, k \in Keys \cup {""}, v \in Values :
          LET r == [op |-> "PUT", requestId |-> rid, key |-> k, value |-> v] IN
          /\ ~PutInvalid(r)
          /\ req' = [req EXCEPT ![t] = r]
    /\ pc' = [pc EXCEPT ![t] = "put_wait"]
    /\ start' = [start EXCEPT ![t] = now]
    /\ UNCHANGED <<shared, now, result, value, ok, resp, historyCopy, seenLen,
                   snaps, checker>>

\* s.mu.Lock(); defer s.mu.Unlock()
PutLock(t) ==
    /\ pc[t] = "put_wait"
    /\ Lock
    /\ mu' = TRUE
    /\ pc' = [pc EXCEPT ![t] = "put_locked"]
    /\ UNCHANGED <<kv, seenWrite, history, now, locals, snaps, checker>>

\* A handler that writes the map before it looks the request id up.
PutApplyWriteFirst(t) ==
    /\ pc[t] = "put_locked"
    /\ kv' = MapSet(kv, req[t].key, req[t].value)
    /\ seenWrite' = seenWrite \cup {req[t].requestId}
    /\ result' = [result EXCEPT ![t] =
                    IF Seen(req[t].requestId) THEN "duplicate" ELSE "ok"]
    /\ pc' = [pc EXCEPT ![t] = "put_applied"]
    /\ UNCHANGED <<mu, history, now, req, start, value, ok, resp,
                   historyCopy, seenLen, snaps, checker>>

\* The dedup lookup and, for a new request id, the map write and the insert.
PutApply(t) ==
    /\ pc[t] = "put_locked"
    /\ IF Seen(req[t].requestId)
       THEN /\ result' = [result EXCEPT ![t] = "duplicate"]
            /\ UNCHANGED <<kv, seenWrite>>
       ELSE /\ result' = [result EXCEPT ![t] = "ok"]
            /\ kv' = MapSet(kv, req[t].key, req[t].value)
            /\ seenWrite' = seenWrite \cup {req[t].requestId}
    /\ pc' = [pc EXCEPT ![t] = "put_applied"]
    /\ UNCHANGED <<mu, history, now, req, start, value, ok, resp,
                   historyCopy, seenLen, snaps, checker>>

\* A handler that logs applied PUTs only.
PutRecordOkOnly(t) ==
    /\ pc[t] = "put_applied"
    /\ history' = IF result[t] = "ok"
                  THEN Append(history,
                         HistoryEntry(req[t].requestId, "PUT", req[t].key,
                                      req[t].value, result[t], start[t], now))
                  ELSE history
    /\ pc' = [pc EXCEPT ![t] = "put_recorded"]
    /\ UNCHANGED <<mu, kv, seenWrite, now, locals, snaps, checker>>

\* end := time.Now(); s.recordHistory(HistoryEntry{...})
PutRecord(t) ==
    /\ pc[t] = "put_applied"
    /\ history' = Append(history,
           HistoryEntry(req[t].requestId, "PUT", req[t].key, req[t].value,
                        result[t], start[t], now))
    /\ pc' = [pc EXCEPT ![t] = "put_recorded"]
    /\ UNCHANGED <<mu, kv, seenWrite, now, locals, snaps, checker>>

\* json.NewEncoder(w).Encode(map[string]string{"result": result})
PutRespond(t) ==
    /\ pc[t] = "put_recorded"
    /\ resp' = [resp EXCEPT ![t] = [status |-> 200, result |-> result[t]]]
    /\ pc' = [pc EXCEPT ![t] = "put_responded"]
    /\ UNCHANGED <<shared, now, req, start, result, value, ok,
                   historyCopy, seenLen, snaps, checker>>

\* handlePut returns: the deferred s.mu.Unlock() runs.
PutReturn(t) ==
    /\ pc[t] = "put_responded"
    /\ mu' = FALSE
    /\ Return(t)
    /\ UNCHANGED <<kv, seenWrite, history, now, snaps, checker>>

------------------------------------------------------------------------------
\* handleGet

\* start := time.Now(); an empty key: 400.
GetRejected(t) ==
    /\ pc[t] = "idle"
    /\ CanStart
    /\ \E rid \in RequestIDs \cup {""} :
          req' = [req EXCEPT ![t] =
                    [op |-> "GET", requestId |-> rid, key |-> "", value |-> ""]]
    /\ pc' = [pc EXCEPT ![t] = "rejected"]
    /\ start' = [start EXCEPT ![t] = now]
    /\ resp' = [resp EXCEPT ![t] = [status |-> 400, error |-> "key required"]]
    /\ UNCHANGED <<shared, now, result, value, ok, historyCopy, seenLen,
                   snaps, checker>>

\* start := time.Now(); key and X-Request-ID read; on to s.mu.Lock().
GetStart(t) ==
    /\ pc[t] = "idle"
    /\ CanStart
    /\ \E rid \in RequestIDs \cup {""}, k \in Keys \cup {""} :
          LET r == [op |-> "GET", requestId |-> rid, key |-> k, value |-> ""] IN
          /\ ~GetInvalid(r)
          /\ req' = [req EXCEPT ![t] = r]
    /\ pc' = [pc EXCEPT ![t] = "get_wait"]
    /\ start' = [start EXCEPT ![t] = now]
    /\ seenLen' = [seenLen EXCEPT ![t] = Len(history)]
    /\ UNCHANGED <<shared, now, result, value, ok, resp, historyCopy, snaps,
                   checker>>

\* s.mu.Lock()
GetLock(t) ==
    /\ pc[t] = "get_wait"
    /\ Lock
    /\ mu' = TRUE
    /\ pc' = [pc EXCEPT ![t] = "get_locked"]
    /\ UNCHANGED <<kv, seenWrite, history, now, locals, snaps, checker>>

\* A read that marks the request id of the GET as seen.
GetReadMarksSeen(t) ==
    /\ pc[t] = "get_locked"
    /\ value' = [value EXCEPT ![t] = MapGet(kv, req[t].key).value]
    /\ ok' = [ok EXCEPT ![t] = MapGet(kv, req[t].key).ok]
    /\ seenWrite' = seenWrite \cup {req[t].requestId}
    /\ pc' = [pc EXCEPT ![t] = "get_read"]
    /\ UNCHANGED <<mu, kv, history, now, req, start, result, resp,
                   historyCopy, seenLen, snaps, checker>>

\* value, ok := s.kv[key]
GetRead(t) ==
    /\ pc[t] = "get_locked"
    /\ value' = [value EXCEPT ![t] = MapGet(kv, req[t].key).value]
    /\ ok' = [ok EXCEPT ![t] = MapGet(kv, req[t].key).ok]
    /\ pc' = [pc EXCEPT ![t] = "get_read"]
    /\ UNCHANGED <<shared, now, req, start, result, resp, historyCopy,
                   seenLen, snaps, checker>>

\* A handler that logs its start as the end of the operation.
GetRecordStartAsEnd(t) ==
    /\ pc[t] = "get_read"
    /\ history' = Append(history,
           HistoryEntry(req[t].requestId, "GET", req[t].key, value[t],
                        GetResult(ok[t]), start[t], start[t]))
    /\ pc' = [pc EXCEPT ![t] = "get_recorded"]
    /\ UNCHANGED <<mu, kv, seenWrite, now, locals, snaps, checker>>

\* end := time.Now(); s.recordHistory(HistoryEntry{...})
GetRecord(t) ==
    /\ pc[t] = "get_read"
    /\ history' = Append(history,
           HistoryEntry(req[t].requestId, "GET", req[t].key, value[t],
                        GetResult(ok[t]), start[t], now))
    /\ pc' = [pc EXCEPT ![t] = "get_recorded"]
    /\ UNCHANGED <<mu, kv, seenWrite, now, locals, snaps, checker>>

\* A handler that goes on to respond without s.mu.Unlock().
GetUnlockForgotten(t) ==
    /\ pc[t] = "get_recorded"
    /\ pc' = [pc EXCEPT ![t] = "get_unlocked"]
    /\ UNCHANGED <<mu, kv, seenWrite, history, now, locals, snaps, checker>>

\* s.mu.Unlock()
GetUnlock(t) ==
    /\ pc[t] = "get_recorded"
    /\ mu' = FALSE
    /\ pc' = [pc EXCEPT ![t] = "get_unlocked"]
    /\ UNCHANGED <<kv, seenWrite, history, now, locals, snaps, checker>>

\* json.NewEncoder(w).Encode(getResponse{...})
GetRespond(t) ==
    /\ pc[t] = "get_unlocked"
    /\ resp' = [resp EXCEPT ![t] =
                  [status |-> 200, key |-> req[t].key, value |-> value[t],
                   found |-> ok[t], result |-> GetResult(ok[t])]]
    /\ pc' = [pc EXCEPT ![t] = "get_responded"]
    /\ UNCHANGED <<shared, now, req, start, result, value, ok,
                   historyCopy, seenLen, snaps, checker>>

\* handleGet returns.
GetReturn(t) ==
    /\ pc[t] = "get_responded"
    /\ Return(t)
    /\ UNCHANGED <<shared, now, snaps, checker>>

\* A handler returns after http.Error.
RejectedReturn(t) ==
    /\ pc[t] = "rejected"
    /\ Return(t)
    /\ UNCHANGED <<shared, now, snaps, checker>>

------------------------------------------------------------------------------
\* handleHistory

\* handleHistory is called: on to s.mu.Lock().
HistoryStart(t) ==
    /\ pc[t] = "idle"
    /\ CanStart
    /\ snaps' = snaps + 1
    /\ pc' = [pc EXCEPT ![t] = "hist_wait"]
    /\ UNCHANGED <<shared, now, locals, checker>>

\* s.mu.Lock()
HistoryLock(t) ==
    /\ pc[t] = "hist_wait"
    /\ Lock
    /\ mu' = TRUE
    /\ pc' = [pc EXCEPT ![t] = "hist_locked"]
    /\ UNCHANGED <<kv, seenWrite, history, now, locals, snaps, checker>>

\* historyCopy := make(...); copy(historyCopy, s.history); s.mu.Unlock()
HistoryCopy(t) ==
    /\ pc[t] = "hist_locked"
    /\ historyCopy' = [historyCopy EXCEPT ![t] = history]
    /\ mu' = FALSE
    /\ pc' = [pc EXCEPT ![t] = "hist_copied"]
    /\ UNCHANGED <<kv, seenWrite, history, now, req, start, result, value, ok,
                   resp, seenLen, snaps, checker>>

\* enc.Encode(historyCopy); handleHistory returns.
HistoryRespond(t) ==
    /\ pc[t] = "hist_copied"
    /\ Return(t)
    /\ UNCHANGED <<shared, now, snaps, checker>>

------------------------------------------------------------------------------
\* LinearizabilityChecker

\* Inputs of a stand-alone checker run.
CheckKeys == {"a", "b"}
CheckIDs == {"r1", "r2"}
\* Longest history handed to a stand-alone checker run.
MaxHistory == 3
\* Largest timestamp in such a history.
MaxStamp == 1

\* ops[i] = Operation{...}: the entry's fields, ClientID being its RequestID.
ToOperation(e) ==
    [ID |-> e.RequestID, Op |-> e.Op, Key |-> e.Key, Value |-> e.Value,
     Start |-> e.Start, End |-> e.End, Result |-> e.Result,
     ClientID |-> e.RequestID]

Operations(h) == [i \in 1..Len(h) |-> ToOperation(h[i])]

\* keyOps[op.Key] = append(keyOps[op.Key], op)
KeyOps(ops, key) == SelectSeq(ops, LAMBDA o : o.Key = key)

\* clientOps[op.ClientID] = append(clientOps[op.ClientID], op)
ClientOps(ops, client) == SelectSeq(ops, LAMBDA o : o.ClientID = client)

\* sort.Slice(ops, func(i, j) { return ops[i].Start.Before(ops[j].Start) }):
\* every order the sort may leave the slice in. sort.Slice is not stable, so
\* operations with equal Start may end in any order.
SortByStart(ops) ==
    {[i \in 1..Len(ops) |-> ops[p[i]]] :
        p \in {q \in Permutations(1..Len(ops)) :
                 \A i, j \in 1..Len(ops) :
                    i < j => ~(ops[q[j]].Start < ops[q[i]].Start)}}

\* latestValue after the loop of checkKeyConsistency has visited ops[1..i].
RECURSIVE LatestValue(_, _)
LatestValue(ops, i) ==
    IF i = 0 THEN ""
    ELSE IF ops[i].Op = "PUT" /\ ops[i].Result = "ok" THEN ops[i].Value
    ELSE LatestValue(ops, i - 1)

\* The inner loop of checkKeyConsistency: some PUT of the read value overlaps.
OverlappingPut(key, ops, op) ==
    \E j \in 1..Len(ops) :
        /\ ops[j].Op = "PUT"
        /\ ops[j].Key = key
        /\ ops[j].Value = op.Value
        /\ ops[j].Start < op.End
        /\ ops[j].End > op.Start

\* A check that also rejects two overlapping PUTs of different values.
KeyConsistentNoRacingPuts(key, ops) ==
    /\ \A i \in 1..Len(ops) :
          (/\ ops[i].Op = "GET"
           /\ ops[i].Result = "ok"
           /\ ops[i].Value # LatestValue(ops, i - 1))
          => OverlappingPut(key, ops, ops[i])
    /\ \A i, j \in 1..Len(ops) :
          (/\ ops[i].Op = "PUT"
           /\ ops[j].Op = "PUT"
           /\ ops[i].Start < ops[j].End
           /\ ops[j].Start < ops[i].End) => ops[i].Value = ops[j].Value

\* checkKeyConsistency on the slice as sorted.
KeyConsistent(key, ops) ==
    \A i \in 1..Len(ops) :
        (/\ ops[i].Op = "GET"
         /\ ops[i].Result = "ok"
         /\ ops[i].Value # LatestValue(ops, i - 1))
        => OverlappingPut(key, ops, ops[i])

\* checkKeyConsistency(key, ops): what it may return.
checkKeyConsistency(key, ops) ==
    {KeyConsistent(key, sorted) : sorted \in SortByStart(ops)}

\* lastWrite of checkReadYourWrite for clientOps[i]: the value of the nearest
\* earlier PUT of the client to the same key, whatever its result.
RECURSIVE LastWrite(_, _, _)
LastWrite(ops, key, j) ==
    IF j = 0 THEN ""
    ELSE IF ops[j].Op = "PUT" /\ ops[j].Key = key THEN ops[j].Value
    ELSE LastWrite(ops, key, j - 1)

\* The loop of checkReadYourWrite over one client's sorted operations.
ClientReadsOwnWrites(ops) ==
    \A i \in 1..Len(ops) :
        ops[i].Op = "GET" =>
            LET lastWrite == LastWrite(ops, ops[i].Key, i - 1) IN
            ~(lastWrite # "" /\ ops[i].Value # lastWrite)

\* checkReadYourWrite(ops): what it may return.
checkReadYourWrite(ops) ==
    LET clients == {ops[i].ClientID : i \in 1..Len(ops)}
        may(c) == {ClientReadsOwnWrites(sorted) :
                      sorted \in SortByStart(ClientOps(ops, c))}
    IN  {b \in BOOLEAN :
            IF b THEN \A c \in clients : TRUE \in may(c)
            ELSE \E c \in clients : FALSE \in may(c)}

\* checkMonotonicReads(ops): the branch that would flag a regression is
\* empty, so it returns true whatever the operations are.
checkMonotonicReads(ops) == {TRUE}

\* fmt.Sprintf("Key '%s' has inconsistent operations", key)
KeyViolation(key) == <<"Key '", key, "' has inconsistent operations">>
ReadYourWriteViolation == <<"Read-your-write consistency violated">>
MonotonicReadsViolation == <<"Monotonic reads violated">>

\* CheckLinearizability(): the (isLinearizable, violations) pairs it may
\* return for lc.history = h.
CheckLinearizability(h) ==
    IF Len(h) = 0
    THEN {[isLinearizable |-> TRUE, violations |-> {}, returned |-> TRUE]}
    ELSE
      LET ops == Operations(h)
          keys == {ops[i].Key : i \in 1..Len(ops)}
          keyResults == {f \in [keys -> BOOLEAN] :
                           \A k \in keys :
                              f[k] \in checkKeyConsistency(k, KeyOps(ops, k))}
          violations(f, ryw, mono) ==
              {KeyViolation(k) : k \in {x \in keys : ~f[x]}}
              \cup (IF ryw THEN {} ELSE {ReadYourWriteViolation})
              \cup (IF mono THEN {} ELSE {MonotonicReadsViolation})
      IN  {[isLinearizable |-> violations(f, ryw, mono) = {},
            violations |-> violations(f, ryw, mono),
            returned |-> TRUE] :
             f \in keyResults,
             ryw \in checkReadYourWrite(ops),
             mono \in checkMonotonicReads(ops)}

------------------------------------------------------------------------------
\* handleLinearizabilityCheck

\* handleLinearizabilityCheck is called: on to s.mu.Lock().
CheckStart(t) ==
    /\ pc[t] = "idle"
    /\ CanStart
    /\ snaps' = snaps + 1
    /\ pc' = [pc EXCEPT ![t] = "check_wait"]
    /\ UNCHANGED <<shared, now, locals, checker>>

\* s.mu.Lock()
CheckLock(t) ==
    /\ pc[t] = "check_wait"
    /\ Lock
    /\ mu' = TRUE
    /\ pc' = [pc EXCEPT ![t] = "check_locked"]
    /\ UNCHANGED <<kv, seenWrite, history, now, locals, snaps, checker>>

\* historyCopy := make(...); copy(historyCopy, s.history); s.mu.Unlock()
CheckCopy(t) ==
    /\ pc[t] = "check_locked"
    /\ historyCopy' = [historyCopy EXCEPT ![t] = history]
    /\ mu' = FALSE
    /\ pc' = [pc EXCEPT ![t] = "check_copied"]
    /\ UNCHANGED <<kv, seenWrite, history, now, req, start, result, value, ok,
                   resp, seenLen, snaps, checker>>

\* isValid, violations := checker.CheckLinearizability(); enc.Encode(response)
CheckRespond(t) ==
    /\ pc[t] = "check_copied"
    /\ \E r \in CheckLinearizability(historyCopy[t]) :
          resp' = [resp EXCEPT ![t] =
                     [status |-> 200, isLinearizable |-> r.isLinearizable,
                      violations |-> r.violations,
                      totalOps |-> Len(historyCopy[t])]]
    /\ pc' = [pc EXCEPT ![t] = "check_responded"]
    /\ UNCHANGED <<shared, now, req, start, result, value, ok, historyCopy,
                   seenLen, snaps, checker>>

\* handleLinearizabilityCheck returns.
CheckReturn(t) ==
    /\ pc[t] = "check_responded"
    /\ Return(t)
    /\ UNCHANGED <<shared, now, snaps, checker>>

------------------------------------------------------------------------------
Next ==
    \/ Tick
    \/ \E t \in Threads : PutMalformed(t)
    \/ \E t \in Threads : PutRejected(t)
    \/ \E t \in Threads : PutStart(t)
    \/ \E t \in Threads : PutLock(t)
    \/ \E t \in Threads : PutApply(t)
    \/ \E t \in Threads : PutRecord(t)
    \/ \E t \in Threads : PutRespond(t)
    \/ \E t \in Threads : PutReturn(t)
    \/ \E t \in Threads : GetRejected(t)
    \/ \E t \in Threads : GetStart(t)
    \/ \E t \in Threads : GetLock(t)
    \/ \E t \in Threads : GetRead(t)
    \/ \E t \in Threads : GetRecord(t)
    \/ \E t \in Threads : GetUnlock(t)
    \/ \E t \in Threads : GetRespond(t)
    \/ \E t \in Threads : GetReturn(t)
    \/ \E t \in Threads : RejectedReturn(t)
    \/ \E t \in Threads : HistoryStart(t)
    \/ \E t \in Threads : HistoryLock(t)
    \/ \E t \in Threads : HistoryCopy(t)
    \/ \E t \in Threads : HistoryRespond(t)
    \/ \E t \in Threads : CheckStart(t)
    \/ \E t \in Threads : CheckLock(t)
    \/ \E t \in Threads : CheckCopy(t)
    \/ \E t \in Threads : CheckRespond(t)
    \/ \E t \in Threads : CheckReturn(t)

\* The store under concurrent callers.
Spec == Init /\ [][Next]_vars

\* A caller blocked in s.mu.Lock() acquires the mutex.
LockStep(t) ==
    \/ PutLock(t)
    \/ GetLock(t)
    \/ HistoryLock(t)
    \/ CheckLock(t)

\* A caller inside a handler executes its next statement.
RunStep(t) ==
    \/ PutApply(t)
    \/ PutRecord(t)
    \/ PutRespond(t)
    \/ PutReturn(t)
    \/ GetRead(t)
    \/ GetRecord(t)
    \/ GetUnlock(t)
    \/ GetRespond(t)
    \/ GetReturn(t)
    \/ RejectedReturn(t)
    \/ HistoryCopy(t)
    \/ HistoryRespond(t)
    \/ CheckCopy(t)
    \/ CheckRespond(t)
    \/ CheckReturn(t)

\* The scheduler runs every runnable goroutine, and sync.Mutex hands the
\* lock to a waiter that keeps finding it taken (starvation mode).
Fairness ==
    \A t \in Threads : WF_vars(RunStep(t)) /\ SF_vars(LockStep(t))

\* Requests a fairly scheduled run still serves.
MaxFairOps == 2

\* The store after it has served MaxOps - MaxFairOps /history requests.
InitFair ==
    /\ NewStore
    /\ pc = [t \in Threads |-> "idle"]
    /\ req = [t \in Threads |-> NoReq]
    /\ start = [t \in Threads |-> 0]
    /\ result = [t \in Threads |-> ""]
    /\ value = [t \in Threads |-> ""]
    /\ ok = [t \in Threads |-> FALSE]
    /\ resp = [t \in Threads |-> NoResp]
    /\ historyCopy = [t \in Threads |-> <<>>]
    /\ seenLen = [t \in Threads |-> 0]
    /\ snaps = MaxOps - MaxFairOps
    /\ now = 0
    /\ lc = <<>>
    /\ verdict = NoVerdict

\* The store under concurrent callers that are scheduled fairly.
SpecFair == InitFair /\ [][Next]_vars /\ Fairness

------------------------------------------------------------------------------
\* A stand-alone checker run over an arbitrary history of well-formed records.

Stamps == 0..MaxStamp

Records ==
    {HistoryEntry(rid, "PUT", k, v, res, s, e) :
        rid \in CheckIDs, k \in CheckKeys, v \in Values,
        res \in {"ok", "duplicate"}, s \in Stamps, e \in Stamps}
    \cup
    {HistoryEntry(rid, "GET", k, v, "ok", s, e) :
        rid \in CheckIDs, k \in CheckKeys, v \in Values,
        s \in Stamps, e \in Stamps}
    \cup
    {HistoryEntry(rid, "GET", k, "", "not_found", s, e) :
        rid \in CheckIDs, k \in CheckKeys, s \in Stamps, e \in Stamps}

Histories ==
    UNION {[1..n -> {r \in Records : r.Start <= r.End}] : n \in 0..MaxHistory}

InitChk ==
    /\ NewStore
    /\ Idle
    /\ now = 0
    /\ lc \in Histories
    /\ verdict = NoVerdict

\* checker := &LinearizabilityChecker{history: ...}; CheckLinearizability()
RunCheck ==
    /\ ~verdict.returned
    /\ verdict' \in CheckLinearizability(lc)
    /\ UNCHANGED <<shared, now, pc, locals, snaps, lc>>

NextChk == RunCheck

SpecChk == InitChk /\ [][NextChk]_vars

------------------------------------------------------------------------------
\* A stand-alone checker run over the history of sequential callers: every
\* operation completes before the next one starts.

\* Longest such history.
MaxSeqHistory == 4
SeqKeys == {"a"}

\* The records an operation at instant s may leave.
SeqRecords(s) ==
    {HistoryEntry(rid, "PUT", k, v, res, s, s) :
        rid \in CheckIDs, k \in SeqKeys, v \in Values,
        res \in {"ok", "duplicate"}}
    \cup
    {HistoryEntry(rid, "GET", k, v, "ok", s, s) :
        rid \in CheckIDs, k \in SeqKeys, v \in Values}
    \cup
    {HistoryEntry(rid, "GET", k, "", "not_found", s, s) :
        rid \in CheckIDs, k \in SeqKeys}

\* The i-th operation runs at instant i - 1, and a request id is applied at
\* most once (the dedup set of handlePut).
SeqHistories ==
    UNION {{h \in [1..n -> UNION {SeqRecords(s) : s \in 0..(n - 1)}] :
               /\ \A i \in 1..n : h[i].Start = i - 1
               /\ \A i, j \in 1..n :
                     (/\ h[i].Op = "PUT" /\ h[i].Result = "ok"
                      /\ h[j].Op = "PUT" /\ h[j].Result = "ok"
                      /\ h[i].RequestID = h[j].RequestID) => i = j}
           : n \in 0..MaxSeqHistory}

InitSeq ==
    /\ NewStore
    /\ Idle
    /\ now = 0
    /\ lc \in SeqHistories
    /\ verdict = NoVerdict

NextSeq == RunCheck

SpecSeq == InitSeq /\ [][NextSeq]_vars

------------------------------------------------------------------------------
\* Properties of the store (checked under Spec).

IsOkPut(e) == e.Op = "PUT" /\ e.Result = "ok"
IsOkPutTo(e, k) == IsOkPut(e) /\ e.Key = k

\* Positions of handlePut.
PutPositions == {"put_wait", "put_locked", "put_applied", "put_recorded",
                 "put_responded"}

\* Positions at which a caller holds the mutex.
Critical == {"put_locked", "put_applied", "put_recorded", "put_responded",
             "get_locked", "get_read", "get_recorded",
             "hist_locked", "check_locked"}

\* Positions inside the critical section before the record is appended.
BeforeRecord == {"put_locked", "put_applied", "get_locked", "get_read"}

InCritical == {t \in Threads : pc[t] \in Critical}

\* Some record before position n is an applied PUT of request id rid.
AppliedBefore(rid, n) ==
    \E i \in 1..(n - 1) : IsOkPut(history[i]) /\ history[i].RequestID = rid

\* The index of the last applied PUT to key k among h[1..n], 0 if none.
RECURSIVE LastOkPutIn(_, _, _)
LastOkPutIn(h, k, n) ==
    IF n = 0 THEN 0
    ELSE IF IsOkPutTo(h[n], k) THEN n
    ELSE LastOkPutIn(h, k, n - 1)

LastOkPut(k, n) == LastOkPutIn(history, k, n)

\* Every PUT record after an applied PUT of its request id is a duplicate,
\* and so says the response of such a PUT.
C1_LaterPutsAreDuplicates ==
    /\ \A j \in 1..Len(history) :
          (history[j].Op = "PUT" /\ AppliedBefore(history[j].RequestID, j))
          => history[j].Result = "duplicate"
    /\ \A t \in Threads :
          (pc[t] = "put_responded"
           /\ AppliedBefore(req[t].requestId, Len(history)))
          => resp[t].result = "duplicate"

\* No step of a handler serving a PUT whose request id was applied before
\* changes the map.
C1_RetryKeepsMap ==
    \A t \in Threads :
        (/\ pc[t] \in PutPositions
         /\ pc'[t] # pc[t]
         /\ AppliedBefore(req[t].requestId, Len(history) + 1))
        => kv' = kv

\* C1: once a PUT of request id r is applied, every later PUT of r (any key,
\* any value, any interleaving) is recorded and answered as "duplicate" and
\* leaves the map unchanged.
C1_IdempotentPut == [][C1_LaterPutsAreDuplicates' /\ C1_RetryKeepsMap]_vars

\* A retried PUT that carries another value than the stored one has answered.
C1_Witness ==
    \E t \in Threads :
        /\ pc[t] = "put_responded"
        /\ resp[t].result = "duplicate"
        /\ AppliedBefore(req[t].requestId, Len(history))
        /\ req[t].key \in DOMAIN kv
        /\ kv[req[t].key] # req[t].value

\* Per-key register semantics of the log in append order.
RegisterSemantics ==
    \A i \in 1..Len(history) :
        history[i].Op = "GET" =>
            LET w == LastOkPut(history[i].Key, i - 1) IN
            /\ history[i].Result = "ok"
                  => (w # 0 /\ history[i].Value = history[w].Value)
            /\ history[i].Result = "not_found" => w = 0

\* C2 as stated: the append order extends A.end <= B.start and satisfies
\* per-key register semantics.
C2_LogExtendsPrecedence ==
    /\ \A i, j \in 1..Len(history) :
          (i # j /\ history[i].End <= history[j].Start) => i < j
    /\ RegisterSemantics

\* C2 (amended): the append order of the log extends strict real-time
\* precedence (A.end < B.start puts A before B) and satisfies per-key register
\* semantics.
C2_LogExtendsStrictPrecedence ==
    /\ \A i, j \in 1..Len(history) :
          history[i].End < history[j].Start => i < j
    /\ RegisterSemantics

\* A GET that reads the later of two applied PUTs, the first of which ended
\* strictly before the GET started.
C2_Witness ==
    /\ Len(history) = 3
    /\ IsOkPutTo(history[1], "a")
    /\ IsOkPutTo(history[2], "a")
    /\ history[1].Value # history[2].Value
    /\ history[3].Op = "GET"
    /\ history[3].Result = "ok"
    /\ history[3].Value = history[2].Value
    /\ history[1].End < history[3].Start

\* C3: whenever nobody is inside the critical section, each key's stored
\* value is the value of the last applied PUT to it in the log, and a key is
\* absent exactly when the log has no applied PUT to it.
C3_MapIsLastAppliedPut ==
    ~mu =>
        \A k \in Keys :
            LET w == LastOkPut(k, Len(history)) IN
            /\ k \in DOMAIN kv <=> w # 0
            /\ w # 0 => kv[k] = history[w].Value

\* Two concurrent PUTs of distinct request ids to one key, applied in the
\* order opposite to their starts.
C3_Witness ==
    /\ ~mu
    /\ Len(history) >= 2
    /\ IsOkPutTo(history[1], "a")
    /\ IsOkPutTo(history[2], "a")
    /\ history[1].Value # history[2].Value
    /\ history[2].Start < history[1].Start
    /\ kv["a"] = history[2].Value

\* At most one caller is inside the critical section, and the mutex is locked
\* exactly then.
C4_OneInCriticalSection ==
    /\ Cardinality(InCritical) <= 1
    /\ mu <=> InCritical # {}

\* The map, the dedup set and the log change only under the lock, and a
\* caller that has the lock keeps it until its record is appended.
C4_OneHolding ==
    /\ <<kv, seenWrite, history>> # <<kv, seenWrite, history>>'
          => (mu /\ mu' /\ InCritical = InCritical')
    /\ \A t \in Threads :
          pc[t] \in BeforeRecord => (mu' /\ pc'[t] \in Critical)

\* C4: at most one Put, Get or snapshot request is inside the critical
\* section at any time, and the dedup lookup, the map read or write, the end
\* timestamp and the log append of one operation happen within one
\* uninterrupted holding of the lock.
C4_MutualExclusion == [][C4_OneInCriticalSection' /\ C4_OneHolding]_vars

\* One caller is inside the critical section while the other waits for it.
C4_Witness ==
    \E t, u \in Threads :
        /\ pc[t] = "put_applied"
        /\ pc[u] \in {"put_wait", "get_wait"}

\* C5: a GET of key k that started when the log already held an applied PUT
\* to k (every PUT completed by then is in the log) answers found, "ok" and
\* the value of that PUT or of an applied PUT to k logged after it.
C5_ReadAfterWrite ==
    \A t \in Threads :
        pc[t] = "get_responded" =>
            \A i \in 1..seenLen[t] :
                IsOkPutTo(history[i], req[t].key) =>
                    /\ resp[t].found
                    /\ resp[t].result = "ok"
                    /\ \E j \in i..Len(history) :
                          /\ IsOkPutTo(history[j], req[t].key)
                          /\ resp[t].value = history[j].Value

\* A GET that started after a PUT had completed has answered.
C5_Witness ==
    \E t \in Threads :
        /\ pc[t] = "get_responded"
        /\ seenLen[t] >= 1
        /\ IsOkPutTo(history[1], req[t].key)
        /\ history[1].End < history[Len(history)].Start
        /\ ~(\E j \in 2..Len(history) : IsOkPut(history[j]))
        /\ resp[t].value = history[1].Value

\* No request id has two applied PUT records.
C6_AtMostOneApplied ==
    \A i, j \in 1..Len(history) :
        (/\ IsOkPut(history[i])
         /\ IsOkPut(history[j])
         /\ history[i].RequestID = history[j].RequestID) => i = j

\* C6: the dedup set only grows, and every request id has at most one PUT
\* record with result "ok".
C6_DedupGrows ==
    [][seenWrite \subseteq seenWrite' /\ C6_AtMostOneApplied']_vars

\* A request id in the dedup set has been retried.
C6_Witness ==
    \E i, j \in 1..Len(history) :
        /\ i < j
        /\ IsOkPut(history[i])
        /\ history[j].Op = "PUT"
        /\ history[j].Result = "duplicate"
        /\ history[j].RequestID = history[i].RequestID
        /\ history[i].RequestID \in seenWrite

\* C8: a check over a snapshot of a history the store produced answers
\* isLinearizable = true with no violations (under at least one order the
\* sorts may produce).
C8_CheckerAcceptsStore ==
    \A t \in Threads :
        pc[t] = "check_responded" =>
            \E r \in CheckLinearizability(historyCopy[t]) :
                r.isLinearizable /\ r.violations = {}

------------------------------------------------------------------------------
\* Properties of the checker (checked under SpecChk).

\* A precedes B in real time.
Precedes(a, b) == a.End <= b.Start

\* h taken in the order p is a linearization: it extends real-time precedence
\* and every GET reads the closest preceding applied PUT to its key.
IsLinearization(h, p) ==
    LET s == [i \in 1..Len(h) |-> h[p[i]]] IN
    /\ \A i, j \in 1..Len(s) : (i # j /\ Precedes(s[i], s[j])) => i < j
    /\ \A i \in 1..Len(s) :
          s[i].Op = "GET" =>
              LET w == LastOkPutIn(s, s[i].Key, i - 1) IN
              /\ s[i].Result = "ok" => (w # 0 /\ s[i].Value = s[w].Value)
              /\ s[i].Result = "not_found" => w = 0

Linearizable(h) == \E p \in Permutations(1..Len(h)) : IsLinearization(h, p)

\* C7: the checker answers isLinearizable = true exactly when the history has
\* a linearization, and false with a non-empty violations list otherwise
\* (under at least one order the sorts may produce).
C7_CheckerExact ==
    verdict.returned =>
        \E r \in CheckLinearizability(lc) :
            /\ r.isLinearizable <=> Linearizable(lc)
            /\ ~r.isLinearizable => r.violations # {}

\* Every write of the value lc[i] read is strictly after the read lc[i].
ReadBeforeItsWrites(i) ==
    /\ lc[i].Op = "GET"
    /\ lc[i].Result = "ok"
    /\ \A j \in 1..Len(lc) :
          (lc[j].Op = "PUT" /\ lc[j].Key = lc[i].Key
           /\ lc[j].Value = lc[i].Value) => Precedes(lc[i], lc[j])

\* C9: a GET that returns a value whose writes all come strictly after it
\* makes the checker answer false with a violation naming the key (under at
\* least one order the sorts may produce).
C9_DetectsReadBeforeWrite ==
    verdict.returned =>
        \A i \in 1..Len(lc) :
            ReadBeforeItsWrites(i) =>
                \E r \in CheckLinearizability(lc) :
                    /\ ~r.isLinearizable
                    /\ KeyViolation(lc[i].Key) \in r.violations

\* C10: a history without GET records (empty, duplicate PUTs only, or any
\* PUTs) is answered isLinearizable = true with no violations.
C10_NoReadsNoViolation ==
    (verdict.returned /\ \A i \in 1..Len(lc) : lc[i].Op = "PUT")
    => (verdict.isLinearizable /\ verdict.violations = {})

\* Two overlapping applied PUTs of different values to one key and a
\* duplicate PUT have been checked.
C10_Witness ==
    /\ verdict.returned
    /\ Len(lc) = 3
    /\ \A i \in 1..3 : lc[i].Op = "PUT" /\ lc[i].Key = "a"
    /\ lc[1].Result = "ok"
    /\ lc[2].Result = "ok"
    /\ lc[1].Value # lc[2].Value
    /\ lc[1].Start < lc[2].End
    /\ lc[2].Start < lc[1].End
    /\ lc[3].Result = "duplicate"
    /\ lc[3].RequestID = lc[1].RequestID

\* C11: a GET of key k with result "not_found" that an applied PUT to k
\* precedes in real time (Put.end <= Get.start) makes the checker answer
\* false with a violation naming k (under at least one order the sorts may
\* produce).
C11_EnforcesNotFound ==
    verdict.returned =>
        \A i, j \in 1..Len(lc) :
            (/\ lc[i].Op = "GET"
             /\ lc[i].Result = "not_found"
             /\ IsOkPutTo(lc[j], lc[i].Key)
             /\ Precedes(lc[j], lc[i]))
            => \E r \in CheckLinearizability(lc) :
                  /\ ~r.isLinearizable
                  /\ KeyViolation(lc[i].Key) \in r.violations

\* The applied PUTs of lc[i]'s request id to its key that started before it.
OwnPriorPuts(i) ==
    {j \in 1..Len(lc) :
        /\ IsOkPutTo(lc[j], lc[i].Key)
        /\ lc[j].RequestID = lc[i].RequestID
        /\ lc[j].Start < lc[i].Start}

\* The most recent of them.
MostRecentOwnPuts(i) ==
    {j \in OwnPriorPuts(i) :
        \A k \in OwnPriorPuts(i) : lc[k].Start <= lc[j].Start}

\* The GET lc[i] returns a value strictly older than its client's most recent
\* prior applied PUT to the key: it differs from that PUT's value and is the
\* absent value, or every applied write of it ended strictly before that PUT
\* started.
StaleOwnRead(i) ==
    /\ lc[i].Op = "GET"
    /\ \E j \in MostRecentOwnPuts(i) :
          /\ lc[i].Value # lc[j].Value
          /\ \/ lc[i].Result = "not_found"
             \/ \A w \in 1..Len(lc) :
                   (IsOkPutTo(lc[w], lc[i].Key) /\ lc[w].Value = lc[i].Value)
                   => lc[w].End < lc[j].Start

\* C12: the checker reports a read-your-write violation exactly when some GET
\* returns a value strictly older than its request id's most recent prior
\* applied PUT to the key; a GET that reads a newer value of another request
\* id, or that follows only a duplicate PUT of its client, is not reported
\* (under at least one order the sorts may produce).
C12_ReadYourWritesExact ==
    verdict.returned =>
        \E r \in CheckLinearizability(lc) :
            (ReadYourWriteViolation \in r.violations)
            <=> (\E i \in 1..Len(lc) : StaleOwnRead(i))

\* Properties of the checker on sequential histories (checked under SpecSeq).

\* The GET lc[j] returns a value that the applied write lc[w] superseded
\* strictly before the earlier GET lc[i] of the same request id observed the
\* value of lc[w].
ReadRegresses(i, j, w) ==
    /\ lc[i].Op = "GET" /\ lc[i].Result = "ok"
    /\ lc[j].Op = "GET" /\ lc[j].Result = "ok"
    /\ lc[i].RequestID = lc[j].RequestID
    /\ lc[i].Key = lc[j].Key
    /\ lc[i].Start < lc[j].Start
    /\ IsOkPutTo(lc[w], lc[i].Key)
    /\ lc[w].Value = lc[i].Value
    /\ lc[w].End < lc[i].Start
    /\ lc[j].Value # lc[w].Value
    /\ \E v \in 1..Len(lc) :
          IsOkPutTo(lc[v], lc[j].Key) /\ lc[v].Value = lc[j].Value
    /\ \A v \in 1..Len(lc) :
          (IsOkPutTo(lc[v], lc[j].Key) /\ lc[v].Value = lc[j].Value)
          => lc[v].End <= lc[w].Start

\* C13: when a later GET of a request id returns a value that an applied
\* write superseded strictly before an earlier GET of that request id
\* observed the newer value, the checker answers false and its violations
\* include the monotonic-reads violation.
C13_DetectsRegression ==
    verdict.returned =>
        \A i, j, w \in 1..Len(lc) :
            ReadRegresses(i, j, w) =>
                \E r \in CheckLinearizability(lc) :
                    /\ ~r.isLinearizable
                    /\ MonotonicReadsViolation \in r.violations

------------------------------------------------------------------------------
\* Further properties of the store (checked under Spec).

\* A decoded request lacks a required field.
EmptyField(r) == r.key = "" \/ (r.op = "PUT" /\ r.requestId = "")

\* A request that lacks a required field is answered with a client error and
\* is nowhere else in its handler.
C14_InvalidAnswered400 ==
    \A t \in Threads :
        (req[t].op # "" /\ EmptyField(req[t]))
        => (pc[t] = "rejected" /\ resp[t].status = 400)

\* The steps of a rejecting handler leave the mutex, the map, the dedup set
\* and the log as they are.
C14_RejectionKeepsStore ==
    \A t \in Threads :
        (pc'[t] # pc[t] /\ (pc'[t] = "rejected" \/ pc[t] = "rejected"))
        => UNCHANGED <<mu, kv, seenWrite, history>>

\* C14: a PUT with an empty request id or key and a GET with an empty key
\* fail with a client error without acquiring the lock, and leave the map,
\* the dedup set and the log unchanged.
C14_InvalidNoEffect ==
    [][C14_InvalidAnswered400' /\ C14_RejectionKeepsStore]_vars

\* A PUT without request id is rejected while another caller holds the lock
\* and the log is not empty.
C14_Witness ==
    \E t, u \in Threads :
        /\ pc[t] = "rejected"
        /\ req[t].op = "PUT"
        /\ req[t].requestId = ""
        /\ req[t].key # ""
        /\ resp[t].status = 400
        /\ pc[u] = "put_locked"
        /\ Len(history) > 0

\* No record before position n is an applied PUT to key k.
NoOkPutBefore(k, n) == LastOkPut(k, n - 1) = 0

\* C15: a GET of a key no applied PUT has written appends a record with
\* result "not_found" and an empty value, and answers found = false and
\* result "not_found".
C15_UnknownKey ==
    /\ \A i \in 1..Len(history) :
          (history[i].Op = "GET" /\ NoOkPutBefore(history[i].Key, i))
          => (history[i].Result = "not_found" /\ history[i].Value = "")
    /\ \A t \in Threads :
          (pc[t] = "get_recorded" /\ NoOkPutBefore(req[t].key, Len(history)))
          => (~ok[t] /\ value[t] = "")
    /\ \A t \in Threads :
          pc[t] = "get_responded" =>
              /\ resp[t].found = ok[t]
              /\ resp[t].result = (IF ok[t] THEN "ok" ELSE "not_found")
              /\ NoOkPutBefore(req[t].key, Len(history) + 1)
                    => (~resp[t].found /\ resp[t].value = "")

\* A GET has answered not_found while a PUT to its key waits for the lock.
C15_Witness ==
    \E t, u \in Threads :
        /\ pc[u] = "put_wait"
        /\ req[u].key = req[t].key
        /\ pc[t] = "get_responded"
        /\ ~resp[t].found
        /\ resp[t].result = "not_found"
        /\ Len(history) >= 1
        /\ history[Len(history)].Op = "GET"
        /\ history[Len(history)].Result = "not_found"
        /\ history[Len(history)].Value = ""

------------------------------------------------------------------------------
\* Further properties of the checker (checked under SpecChk).

\* The history without its duplicate PUT records.
WithoutDuplicates(h) ==
    SelectSeq(h, LAMBDA e : ~(e.Op = "PUT" /\ e.Result = "duplicate"))

\* C16: removing every PUT record with result "duplicate" from a history does
\* not change the checker's isLinearizable answer (under at least one order
\* the sorts may produce for either history).
C16_DuplicatesAreNonEvents ==
    verdict.returned =>
        \E r \in CheckLinearizability(lc) :
            \E q \in CheckLinearizability(WithoutDuplicates(lc)) :
                r.isLinearizable = q.isLinearizable

------------------------------------------------------------------------------
\* Properties of the log, the timestamps and the lock (checked under Spec).

IsPrefix(a, b) == Len(a) <= Len(b) /\ SubSeq(b, 1, Len(a)) = a

\* Caller t appends its record in this step.
Records1(t) == pc[t] \in Pending /\ pc'[t] \notin Pending

\* The log only grows at its end, by the one record of a caller that passed
\* validation, and every snapshot is a prefix of it.
C17_StepAppends ==
    /\ IsPrefix(history, history')
    /\ Len(history') <= Len(history) + 1
    /\ history' # history => \E t \in Threads : Records1(t)
    /\ \A t \in Threads :
          Records1(t) =>
              /\ Len(history') = Len(history) + 1
              /\ history'[Len(history')].RequestID = req[t].requestId
              /\ history'[Len(history')].Op = req[t].op
              /\ history'[Len(history')].Key = req[t].key
              /\ history'[Len(history')].Result
                    \in {"ok", "duplicate", "not_found"}
    /\ \A t \in Threads :
          pc'[t] \in Pending => pc[t] \in Pending \cup {"idle"}
    /\ \A t \in Threads : IsPrefix(historyCopy'[t], history')

\* C17: the log is append-only: every Put or Get that passes validation
\* appends exactly one record whatever its outcome, no step removes or
\* rewrites a record, and the log of an earlier state and every snapshot of
\* /history or /check is a prefix of the log of every later state.
C17_AppendOnly == [][C17_StepAppends]_vars

\* A snapshot holds the applied PUT only, the log also its logged retry.
C17_Witness ==
    \E t \in Threads :
        /\ pc[t] \in {"hist_copied", "check_copied"}
        /\ Len(historyCopy[t]) = 1
        /\ Len(history) = 2
        /\ history[2].Result = "duplicate"

\* Every record has start <= end, and ends do not decrease along the log.
C18_LogStamps ==
    /\ \A i \in 1..Len(history) : history[i].Start <= history[i].End
    /\ \A i, j \in 1..Len(history) :
          i < j => history[i].End <= history[j].End

\* start is read before the lock is acquired, end is read while it is held,
\* and the clock does not go back between the two.
C18_StampOrder ==
    /\ now <= now'
    /\ \A t \in Threads :
          (pc[t] \in {"put_wait", "get_wait"} /\ pc'[t] # pc[t])
          => (~mu /\ mu' /\ start[t] <= now)
    /\ \A t \in Threads :
          Records1(t) =>
              /\ mu /\ mu'
              /\ history'[Len(history')].Start = start[t]
              /\ history'[Len(history')].End = now

\* C18: every record has start <= end, start being read before the lock is
\* acquired and end while it is held, so ends are non-decreasing in append
\* order (starts need not be).
C18_Timestamps == [][C18_LogStamps' /\ C18_StampOrder]_vars

\* A GET logged before an operation that started earlier: starts decrease
\* along the log while ends do not.
C18_Witness ==
    /\ Len(history) >= 2
    /\ history[1].Op = "GET"
    /\ history[1].Start > history[2].Start
    /\ history[1].End <= history[2].End

\* Positions of handleGet.
GetPositions == {"get_wait", "get_locked", "get_read", "get_recorded",
                 "get_unlocked", "get_responded"}

\* No step of a handler serving a GET changes the map or the dedup set.
C19_GetKeepsStore ==
    \A t \in Threads :
        (/\ pc'[t] # pc[t]
         /\ \/ pc[t] \in GetPositions
            \/ pc'[t] \in GetPositions
            \/ req'[t].op = "GET")
        => (kv' = kv /\ seenWrite' = seenWrite)

\* The dedup set holds request ids of applied PUTs only, and a PUT whose
\* request id no earlier applied PUT carries is applied.
C19_OnlyPutsAreSeen ==
    /\ \A rid \in seenWrite :
          \/ \E i \in 1..Len(history) :
                IsOkPut(history[i]) /\ history[i].RequestID = rid
          \/ \E t \in Threads :
                /\ pc[t] = "put_applied"
                /\ result[t] = "ok"
                /\ req[t].requestId = rid
    /\ \A j \in 1..Len(history) :
          (history[j].Op = "PUT" /\ ~AppliedBefore(history[j].RequestID, j))
          => history[j].Result = "ok"

\* C19: a GET never changes the map or the dedup set and its request id is
\* never inserted into the dedup set, so a PUT that reuses a request id seen
\* only on GETs is applied with result "ok".
C19_GetIsReadOnly == [][C19_GetKeepsStore /\ C19_OnlyPutsAreSeen']_vars

\* A PUT applied under the request id of an earlier GET.
C19_Witness ==
    \E i, j \in 1..Len(history) :
        /\ i < j
        /\ history[i].Op = "GET"
        /\ history[i].RequestID # ""
        /\ IsOkPut(history[j])
        /\ history[j].RequestID = history[i].RequestID

\* C20: a caller that has written the response of a Put or a Get does not
\* hold the lock: if the mutex is locked then, another caller holds it.
C20_NoLockAcrossResponse ==
    \A t \in Threads :
        (pc[t] \in {"put_responded", "get_responded"} /\ mu)
        => \E u \in Threads \ {t} : pc[u] \in Critical

------------------------------------------------------------------------------
\* Progress (checked under SpecFair).

\* Positions of a caller blocked in s.mu.Lock().
Waiting == {"put_wait", "get_wait", "hist_wait", "check_wait"}

\* Some caller inside a handler can take its next step.
CanProceed ==
    \E t \in Threads : ENABLED (RunStep(t) \/ LockStep(t))

\* While a request is in progress some caller can step, and with every
\* caller back from its handler the mutex is unlocked.
C21_NoDeadlock ==
    /\ (\E t \in Threads : pc[t] # "idle") => CanProceed
    /\ (\A t \in Threads : pc[t] \in {"idle"} \cup Waiting) => ~mu

\* A handler on an error path returns without having touched the mutex.
C21_ErrorPathUnlocked ==
    \A t \in Threads :
        (pc[t] = "rejected" /\ pc'[t] # pc[t])
        => (pc'[t] = "idle" /\ mu' = mu /\ (mu => InCritical # {}))

\* C21: under fair scheduling every Put, Get, history and check request that
\* is invoked completes, every acquisition of the lock is followed by its
\* release, no reachable state is a deadlock and no error path returns while
\* holding the lock.
C21_Progress ==
    /\ \A t \in Threads : (pc[t] # "idle") ~> (pc[t] = "idle")
    /\ mu ~> ~mu
    /\ []C21_NoDeadlock
    /\ [][C21_ErrorPathUnlocked]_vars

\* A check request is blocked on the lock a PUT holds after it has answered.
C21_Witness ==
    \E t, u \in Threads :
        /\ pc[t] = "check_wait"
        /\ pc[u] = "put_responded"
        /\ mu

====
